---- MODULE Spec2Model ----
(***************************************************************************)
(* The ICMP echo engine of the ping tool: the Internet checksum,           *)
(* EchoRequest::encode, EchoReply::decode and IpV4Packet::decode           *)
(* (src/ping/src/icmp/mod.rs, src/ping/src/icmp/echo.rs,                   *)
(* src/ping/src/ip.rs).  Bytes are naturals in 0..255, a byte slice is a   *)
(* sequence of bytes (the slice index i is the sequence index i + 1), a    *)
(* u16 is a natural below 65536 and a u32 is a pair of 16-bit halves, so   *)
(* that 32-bit wrap-around is kept.                                        *)
(***************************************************************************)
EXTENDS Integers, Sequences, FiniteSets, TLC

VARIABLES
    P,          \* the protocol variant the calls are instantiated with
    request,    \* the EchoRequest (ident, seq_cnt, payload)
    buffer,     \* the byte buffer the calls read and write in place
    ret,        \* what the last call returned (or that it panicked)
    calls,      \* the calls made so far on this buffer, in order
    app,        \* the PingApp: addr family, timeout, ttl, size, cnt
    pc,         \* the statement PingApp::run / PingApp::ping is at
    attempts,   \* attempts of the for loop of run completed so far
    stats,      \* the Statistics of run
    outcomes,   \* what each completed attempt gave: <<rtt>> or <<>> (lost)
    socket,     \* the raw socket of the attempt, <<>> while there is none
    now,        \* time (ms) since the attempt began
    timer,      \* the Instant taken before the read
    pdata,      \* the Data (ttl, time) of the attempt
    report      \* the figures run prints at the end

appvars == <<app, pc, attempts, stats, outcomes, socket, now, timer, pdata,
             report>>

vars == <<P, request, buffer, ret, calls, appvars>>

-----------------------------------------------------------------------------
(* Bounds of the checked inputs.                                           *)

MaxPayloadLen == 3      \* longest request payload
MaxBufferLen == 12      \* longest buffer handed to encode
MaxRawLen == 6          \* longest free-form byte string
MaxIpLen == 26          \* longest IPv4 datagram
MaxTsLen == 21          \* longest buffer handed to the timestamp codec
MaxCnt == 3             \* largest attempt count (-c)

-----------------------------------------------------------------------------
(* Fixed-width integers.                                                   *)

U16 == 256 * 256

Min(a, b) == IF a < b THEN a ELSE b

\* u16::to_be_bytes
to_be_bytes(x) == <<x \div 256, x % 256>>

\* a u32 value v < 2^31 as its two 16-bit halves
AsU32(v) == [hi |-> (v \div U16) % U16, lo |-> v % U16]

\* u32::wrapping_add(sum, u32::from(part)), part a u16
wrapping_add(sum, part) ==
    LET lo == sum.lo + part
    IN  [hi |-> (sum.hi + (lo \div U16)) % U16, lo |-> lo % U16]

-----------------------------------------------------------------------------
(* Protocol variants: impl Echo for IcmpV4 / IcmpV6.                       *)

Variants == {"IcmpV4", "IcmpV6"}

REQUEST_TYPE(p) == IF p = "IcmpV4" THEN 8 ELSE 128
REQUEST_CODE(p) == 0
REPLY_TYPE(p) == IF p = "IcmpV4" THEN 0 ELSE 129
REPLY_CODE(p) == 0

HEADER_SIZE == 8

-----------------------------------------------------------------------------
(* Slice writes.  A running call is [status, buffer]; once the status is   *)
(* "panic" the remaining statements are not executed.                      *)

Running(b) == [status |-> "ok", buffer |-> b]

\* buffer[i] = v    (panics when i is out of bounds)
StoreByte(r, i, v) ==
    IF r.status # "ok" THEN r
    ELSE IF i >= Len(r.buffer) THEN [r EXCEPT !.status = "panic"]
    ELSE [r EXCEPT !.buffer[i + 1] = v]

\* buffer[i .. i + Len(src)].clone_from_slice(src)
\* (the range is checked before any byte is copied)
StoreSlice(r, i, src) ==
    IF r.status # "ok" THEN r
    ELSE IF i + Len(src) > Len(r.buffer) THEN [r EXCEPT !.status = "panic"]
    ELSE [r EXCEPT !.buffer =
             [k \in 1..Len(r.buffer) |->
                 IF k > i /\ k <= i + Len(src) THEN src[k - i] ELSE r.buffer[k]]]

\* <&mut [u8] as Write>::write(data) on a slice of len bytes: copies
\* min(data.len(), len) bytes and returns Ok(amount); it has no Err case.
SliceWrite(len, data) == [result |-> "Ok", amt |-> Min(Len(data), len)]

\* (&mut buffer[8..]).write(payload): taking the slice panics when 8 > len.
\* on_err is what the caller makes of an Err: "panic" for .expect(..),
\* "InvalidSize" for if ..is_err() { return Err(Error::InvalidSize) }.
WritePayload(r, payload, on_err) ==
    IF r.status # "ok" THEN r
    ELSE IF HEADER_SIZE > Len(r.buffer) THEN [r EXCEPT !.status = "panic"]
    ELSE LET w == SliceWrite(Len(r.buffer) - HEADER_SIZE, payload)
             r1 == StoreSlice(r, HEADER_SIZE, SubSeq(payload, 1, w.amt))
         IN  IF w.result = "Err" THEN [r1 EXCEPT !.status = on_err] ELSE r1

-----------------------------------------------------------------------------
(* The Internet checksum.                                                  *)

\* for word in buffer.chunks(2) { ... sum = sum.wrapping_add(part) }
\* k is the index of the next chunk
RECURSIVE SumChunks(_, _, _)
SumChunks(b, k, sum) ==
    IF 2 * k >= Len(b) THEN sum
    ELSE LET hi == b[2 * k + 1] * 256
             part == IF 2 * k + 2 <= Len(b) THEN hi + b[2 * k + 2] ELSE hi
         IN  SumChunks(b, k + 1, wrapping_add(sum, part))

\* the carry folded once only (if instead of while)
FoldCarry_once(sum) ==
    IF sum.hi > 0 THEN AsU32(sum.lo + sum.hi) ELSE sum

\* while (sum >> 16) > 0 { sum = (sum & 0xffff) + (sum >> 16) }
RECURSIVE FoldCarry(_)
FoldCarry(sum) ==
    IF sum.hi > 0 THEN FoldCarry(AsU32(sum.lo + sum.hi)) ELSE sum

\* !sum as u16
get_checksum(b) == (U16 - 1) - FoldCarry(SumChunks(b, 0, AsU32(0))).lo

\* the checksum stored low byte first
write_checksum_swapped(b) ==
    LET sum == get_checksum(b)
        r1 == StoreByte(Running(b), 2, sum % 256)
    IN  StoreByte(r1, 3, sum \div 256)

write_checksum(b) ==
    LET sum == get_checksum(b)
        r1 == StoreByte(Running(b), 2, sum \div 256)
    IN  StoreByte(r1, 3, sum % 256)

-----------------------------------------------------------------------------
(* EchoRequest::encode and EchoReply::decode.                              *)

EchoRequest_encode(p, self, b) ==
    LET r1 == StoreByte(Running(b), 0, REQUEST_TYPE(p))
        r2 == StoreByte(r1, 1, REQUEST_CODE(p))
        r3 == StoreSlice(r2, 4, to_be_bytes(self.ident))
        r4 == StoreSlice(r3, 6, to_be_bytes(self.seq_cnt))
        r5 == WritePayload(r4, self.payload, "panic")
    IN  IF r5.status = "ok" THEN write_checksum(r5.buffer) ELSE r5

\* EchoRequest::encode of src/ping/src/icmp.rs, the single-file version of
\* the module, which returns Result<(), Error>
icmp_rs_EchoRequest_encode(p, self, b) ==
    LET r1 == StoreByte(Running(b), 0, REQUEST_TYPE(p))
        r2 == StoreByte(r1, 1, REQUEST_CODE(p))
        r3 == StoreByte(r2, 4, self.ident \div 256)
        r4 == StoreByte(r3, 5, self.ident % 256)
        r5 == StoreByte(r4, 6, self.seq_cnt \div 256)
        r6 == StoreByte(r5, 7, self.seq_cnt % 256)
        r7 == WritePayload(r6, self.payload, "InvalidSize")
    IN  IF r7.status = "ok" THEN write_checksum(r7.buffer) ELSE r7

\* ident and seq_cnt read low byte first
EchoReply_decode_le(p, b) ==
    IF Len(b) < HEADER_SIZE THEN [status |-> "InvalidSize"]
    ELSE IF b[1] # REPLY_TYPE(p) /\ b[2] # REPLY_CODE(p)
         THEN [status |-> "InvalidPacket"]
    ELSE [status |-> "ok",
          ident |-> b[6] * 256 + b[5],
          seq_cnt |-> b[8] * 256 + b[7],
          payload |-> SubSeq(b, HEADER_SIZE + 1, Len(b))]

\* type and code looked at before the length
EchoReply_decode_typefirst(p, b) ==
    IF Len(b) >= 2 /\ b[1] # REPLY_TYPE(p) /\ b[2] # REPLY_CODE(p)
    THEN [status |-> "InvalidPacket"]
    ELSE IF Len(b) < HEADER_SIZE THEN [status |-> "InvalidSize"]
    ELSE [status |-> "ok",
          ident |-> b[5] * 256 + b[6],
          seq_cnt |-> b[7] * 256 + b[8],
          payload |-> SubSeq(b, HEADER_SIZE + 1, Len(b))]

\* the checksum of the received frame verified before the fields are read
EchoReply_decode_checksummed(p, b) ==
    IF Len(b) < HEADER_SIZE THEN [status |-> "InvalidSize"]
    ELSE IF b[1] # REPLY_TYPE(p) /\ b[2] # REPLY_CODE(p)
         THEN [status |-> "InvalidPacket"]
    ELSE IF get_checksum(b) # 0 THEN [status |-> "InvalidPacket"]
    ELSE [status |-> "ok",
          ident |-> b[5] * 256 + b[6],
          seq_cnt |-> b[7] * 256 + b[8],
          payload |-> SubSeq(b, HEADER_SIZE + 1, Len(b))]

EchoReply_decode(p, b) ==
    IF Len(b) < HEADER_SIZE THEN [status |-> "InvalidSize"]
    ELSE IF b[1] # REPLY_TYPE(p) /\ b[2] # REPLY_CODE(p)
         THEN [status |-> "InvalidPacket"]
    ELSE [status |-> "ok",
          ident |-> b[5] * 256 + b[6],
          seq_cnt |-> b[7] * 256 + b[8],
          payload |-> SubSeq(b, HEADER_SIZE + 1, Len(b))]

-----------------------------------------------------------------------------
(* IpV4Packet::decode.                                                     *)

MINIMUM_PACKET_SIZE == 20

\* IpV4Protocol::decode: Some(Icmp) for 1, None otherwise
IpV4Protocol_decode(data) == IF data = 1 THEN "Icmp" ELSE "None"

\* the protocol byte checked before the header size
IpV4Packet_decode_protofirst(data) ==
    IF Len(data) < MINIMUM_PACKET_SIZE THEN [status |-> "TooSmallHeader"]
    ELSE LET byte0 == data[1]
             version == byte0 \div 16
             header_size == 4 * (byte0 % 16)
         IN  IF version # 4 THEN [status |-> "InvalidVersion"]
             ELSE IF IpV4Protocol_decode(data[10]) = "None"
                  THEN [status |-> "UnknownProtocol"]
             ELSE IF Len(data) < header_size THEN [status |-> "InvalidHeaderSize"]
             ELSE [status |-> "ok",
                   protocol |-> IpV4Protocol_decode(data[10]),
                   ttl |-> data[9],
                   data |-> SubSeq(data, header_size + 1, Len(data))]

\* the data taken from the fixed offset 20 instead of the header size
IpV4Packet_decode_fixed20(data) ==
    IF Len(data) < MINIMUM_PACKET_SIZE THEN [status |-> "TooSmallHeader"]
    ELSE LET byte0 == data[1]
             version == byte0 \div 16
             header_size == 4 * (byte0 % 16)
         IN  IF version # 4 THEN [status |-> "InvalidVersion"]
             ELSE IF Len(data) < header_size THEN [status |-> "InvalidHeaderSize"]
             ELSE IF IpV4Protocol_decode(data[10]) = "None"
                  THEN [status |-> "UnknownProtocol"]
             ELSE [status |-> "ok",
                   protocol |-> IpV4Protocol_decode(data[10]),
                   ttl |-> data[9],
                   data |-> SubSeq(data, MINIMUM_PACKET_SIZE + 1, Len(data))]

IpV4Packet_decode(data) ==
    IF Len(data) < MINIMUM_PACKET_SIZE THEN [status |-> "TooSmallHeader"]
    ELSE LET byte0 == data[1]
             version == byte0 \div 16
             header_size == 4 * (byte0 % 16)
         IN  IF version # 4 THEN [status |-> "InvalidVersion"]
             ELSE IF Len(data) < header_size THEN [status |-> "InvalidHeaderSize"]
             ELSE IF IpV4Protocol_decode(data[10]) = "None"
                  THEN [status |-> "UnknownProtocol"]
             ELSE [status |-> "ok",
                   protocol |-> IpV4Protocol_decode(data[10]),
                   ttl |-> data[9],
                   data |-> SubSeq(data, header_size + 1, Len(data))]

-----------------------------------------------------------------------------
(* The ICMPv4 timestamp codec (src/ping/src/icmp/timestamp.rs).  A        *)
(* Timestamp(u32) is the pair of its 16-bit halves.                        *)

\* impl TimestampMessage for IcmpV4
TimestampMessage_REQUEST_TYPE(p) == 13
TimestampMessage_REQUEST_CODE(p) == 0
TimestampMessage_REPLY_TYPE(p) == 14
TimestampMessage_REPLY_CODE(p) == 0

\* Timestamp::to_be_bytes: self.0.to_be_bytes()
Timestamp_to_be_bytes(t) ==
    <<t.hi \div 256, t.hi % 256, t.lo \div 256, t.lo % 256>>

\* Timestamp::from_bytes: u32::from_le_bytes(data), bytes a slice of 4
Timestamp_from_bytes(bytes) ==
    [hi |-> bytes[4] * 256 + bytes[3], lo |-> bytes[2] * 256 + bytes[1]]

TimestampRequest_encode(p, self, b) ==
    LET r1 == StoreByte(Running(b), 0, TimestampMessage_REQUEST_TYPE(p))
        r2 == StoreByte(r1, 1, TimestampMessage_REQUEST_CODE(p))
        r3 == StoreSlice(r2, 4, to_be_bytes(self.ident))
        r4 == StoreSlice(r3, 6, to_be_bytes(self.seq_cnt))
        r5 == StoreSlice(r4, 8, Timestamp_to_be_bytes(self.orig_timestamp))
        r6 == StoreSlice(r5, 12, Timestamp_to_be_bytes(self.recv_timestamp))
        r7 == StoreSlice(r6, 16, Timestamp_to_be_bytes(self.tran_timestamp))
    IN  IF r7.status = "ok" THEN write_checksum(r7.buffer) ELSE r7

\* &buffer[8..12], &buffer[12..16], &buffer[16..20] panic when the buffer
\* ends before the range does
TimestampReply_decode(p, b) ==
    IF Len(b) < HEADER_SIZE THEN [status |-> "InvalidSize"]
    ELSE IF b[1] # TimestampMessage_REPLY_TYPE(p)
            /\ b[2] # TimestampMessage_REPLY_CODE(p)
         THEN [status |-> "InvalidPacket"]
    ELSE IF Len(b) < 12 \/ Len(b) < 16 \/ Len(b) < 20 THEN [status |-> "panic"]
    ELSE [status |-> "ok",
          ident |-> b[5] * 256 + b[6],
          seq_cnt |-> b[7] * 256 + b[8],
          orig_timestamp |-> Timestamp_from_bytes(SubSeq(b, 9, 12)),
          recv_timestamp |-> Timestamp_from_bytes(SubSeq(b, 13, 16)),
          tran_timestamp |-> Timestamp_from_bytes(SubSeq(b, 17, 20))]

\* u32::overflowing_add(a, b).0, a u32 being its two 16-bit halves
overflowing_add(a, b) ==
    LET lo == a.lo + b.lo
    IN  [hi |-> (a.hi + b.hi + lo \div U16) % U16, lo |-> lo % U16]

\* u32::overflowing_sub(a, b).0
overflowing_sub(a, b) ==
    LET borrow == IF a.lo < b.lo THEN 1 ELSE 0
    IN  [hi |-> (a.hi - b.hi - borrow + U16) % U16,
         lo |-> (a.lo - b.lo + U16) % U16]

\* the 32-bit product of two 16-bit halves
widening_mul(x, y) ==
    LET p0 == (x % 256) * y
        p1 == (x \div 256) * y
        low == p0 + (p1 % 256) * 256
    IN  [hi |-> (p1 \div 256 + low \div U16) % U16, lo |-> low % U16]

\* u32::overflowing_mul(a, b).0
overflowing_mul(a, b) ==
    LET ll == widening_mul(a.lo, b.lo)
        cross == widening_mul(a.hi, b.lo).lo + widening_mul(a.lo, b.hi).lo
    IN  [hi |-> (ll.hi + cross) % U16, lo |-> ll.lo]

\* u32::saturating_add in place of overflowing_add
Timestamp_add_saturating(self, rhs) ==
    IF self.hi + rhs.hi + (self.lo + rhs.lo) \div U16 >= U16 THEN [hi |-> U16 - 1, lo |-> U16 - 1]
    ELSE overflowing_add(self, rhs)

\* impl Add for Timestamp
Timestamp_add(self, rhs) == overflowing_add(self, rhs)

\* impl Sub for Timestamp
Timestamp_sub(self, rhs) == overflowing_sub(self, rhs)

\* impl Mul<u32> for Timestamp
Timestamp_mul(self, rhs) == overflowing_mul(self, rhs)

\* impl From<Duration> for Timestamp: delta.as_millis() as u32, the
\* milliseconds being top * 2^32 + hi * 2^16 + lo
Timestamp_from(delta) == [hi |-> delta.hi, lo |-> delta.lo]

\* 2182158336
NOW_OFFSET == [hi |-> 33297, lo |-> 6144]

u32_lt(a, b) == a.hi < b.hi \/ (a.hi = b.hi /\ a.lo < b.lo)

\* Timestamp::now: t.0 - 2182158336 is a plain u32 subtraction: when it
\* underflows it panics in a build with overflow checks and wraps in a
\* build without them
Timestamp_now(since_epoch) ==
    LET t == Timestamp_from(since_epoch)
    IN  IF u32_lt(t, NOW_OFFSET)
        THEN {[status |-> "panic"],
              [status |-> "ok", value |-> overflowing_sub(t, NOW_OFFSET)]}
        ELSE {[status |-> "ok", value |-> overflowing_sub(t, NOW_OFFSET)]}

-----------------------------------------------------------------------------
(* PingApp (src/ping/src/app.rs).  A Duration is a number of milliseconds, *)
(* an Option is the empty sequence (None) or a one-element sequence.       *)

None == <<>>
Some(v) == <<v>>

\* Option::unwrap_or
unwrap_or(o, default) == IF o = None THEN default ELSE o[1]

Max(a, b) == IF a > b THEN a ELSE b

\* Duration::new(u64::MAX >> 1, u32::MAX), about 2^63 seconds: held as the
\* largest number of the model, above every time a run can measure or add up
SENTINEL == 2147483647

\* Statistics::new
Statistics_new ==
    [total_packet_cnt |-> 0, lost_packet_cnt |-> 0,
     total_time |-> 0, max_time |-> 0, min_time |-> SENTINEL]

\* min_time set to the last round-trip time instead of the smallest
run_on_ok_last(st, d) ==
    [st EXCEPT !.total_time = @ + d.time,
               !.max_time = Max(@, d.time),
               !.min_time = d.time]

\* run, the Ok(data) arm of the match
run_on_ok(st, d) ==
    [st EXCEPT !.total_time = @ + d.time,
               !.max_time = Max(@, d.time),
               !.min_time = Min(@, d.time)]

\* the failed attempt not counted
run_on_err_uncounted(st) ==
    [st EXCEPT !.max_time = 9999]

\* run, the Err(err) arm of the match
run_on_err(st) ==
    [st EXCEPT !.lost_packet_cnt = @ + 1,
               !.max_time = 9999]

\* total_time set to max_time, not multiplied by the count
run_normalize_once(st, cnt) ==
    IF st.min_time > st.max_time
    THEN [st EXCEPT !.min_time = st.max_time,
                    !.total_time = st.max_time]
    ELSE st

\* run, if stats.min_time > stats.max_time { .. } after the loop
run_normalize(st, cnt) ==
    IF st.min_time > st.max_time
    THEN [st EXCEPT !.min_time = st.max_time,
                    !.total_time = st.max_time * cnt]
    ELSE st

\* one attempt too many
loop_head_inclusive(k, cnt) == IF k <= cnt THEN "encode" ELSE "loop_end"

\* run, for _ in 0..self.cnt: the statement after k attempts
loop_head(k, cnt) == IF k < cnt THEN "encode" ELSE "loop_end"

\* the timer started before the send instead of after it
ping_next_timer_first(step, p) ==
    CASE step = "encode" -> "socket_new"
      [] step = "socket_new" -> "set_ttl"
      [] step = "set_ttl" -> "set_write_timeout"
      [] step = "set_write_timeout" -> "timer_start"
      [] step = "timer_start" -> "send_to"
      [] step = "send_to" -> "set_read_timeout"
      [] step = "set_read_timeout" -> "read"
      [] step = "read" -> "elapsed"
      [] step = "elapsed" -> IF p = "IcmpV4" THEN "ip_decode" ELSE "icmp_decode"
      [] step = "ip_decode" -> "icmp_decode"
      [] step = "icmp_decode" -> "match"

\* the frame sent again after the read timeout is set
ping_next_resend(step, p) ==
    CASE step = "encode" -> "socket_new"
      [] step = "socket_new" -> "set_ttl"
      [] step = "set_ttl" -> "set_write_timeout"
      [] step = "set_write_timeout" -> "send_to"
      [] step = "send_to" -> "set_read_timeout"
      [] step = "set_read_timeout" -> "send_to"
      [] step = "timer_start" -> "read"
      [] step = "read" -> "elapsed"
      [] step = "elapsed" -> IF p = "IcmpV4" THEN "ip_decode" ELSE "icmp_decode"
      [] step = "ip_decode" -> "icmp_decode"
      [] step = "icmp_decode" -> "match"

\* the IPv4 header parsed whatever the address family
ping_next_always_ip(step, p) ==
    CASE step = "encode" -> "socket_new"
      [] step = "socket_new" -> "set_ttl"
      [] step = "set_ttl" -> "set_write_timeout"
      [] step = "set_write_timeout" -> "send_to"
      [] step = "send_to" -> "set_read_timeout"
      [] step = "set_read_timeout" -> "timer_start"
      [] step = "timer_start" -> "read"
      [] step = "read" -> "elapsed"
      [] step = "elapsed" -> "ip_decode"
      [] step = "ip_decode" -> "icmp_decode"
      [] step = "icmp_decode" -> "match"

\* ping: the statement that follows each statement when it succeeds
ping_next(step, p) ==
    CASE step = "encode" -> "socket_new"
      [] step = "socket_new" -> "set_ttl"
      [] step = "set_ttl" -> "set_write_timeout"
      [] step = "set_write_timeout" -> "send_to"
      [] step = "send_to" -> "set_read_timeout"
      [] step = "set_read_timeout" -> "timer_start"
      [] step = "timer_start" -> "read"
      [] step = "read" -> "elapsed"
      [] step = "elapsed" -> IF p = "IcmpV4" THEN "ip_decode" ELSE "icmp_decode"
      [] step = "ip_decode" -> "icmp_decode"
      [] step = "icmp_decode" -> "match"

\* ping: timeout, Some(4 s) when none is configured
ping_timeout(a) == unwrap_or(a.timeout, 4000)

\* another default TTL
ping_ttl_255(a) == unwrap_or(a.ttl, 255)

\* ping: socket.set_ttl(self.ttl.unwrap_or(64))
ping_ttl(a) == unwrap_or(a.ttl, 64)

NoData == [ttl |-> None, time |-> 0]
NoRequest == [ident |-> 0, seq_cnt |-> 0, payload |-> <<>>]
NoAppConfig ==
    [ipv4 |-> TRUE, timeout |-> None, ttl |-> None, ident |-> None,
     seq_cnt |-> None, size |-> None, cnt |-> 0]

\* the codec on its own: no PingApp is running
NoApp ==
    /\ app = NoAppConfig
    /\ pc = "idle"
    /\ attempts = 0
    /\ stats = Statistics_new
    /\ outcomes = <<>>
    /\ socket = None
    /\ now = 0
    /\ timer = 0
    /\ pdata = NoData
    /\ report = None

-----------------------------------------------------------------------------
(* The inputs.                                                             *)

PayloadBytes == {0, 171, 255}
Idents == {0, 4660, 65535}
SeqCnts == {1, 65280}
FillBytes == {0, 238}
RawBytes == {0, 1, 255}
TypeBytes == {0, 8, 128, 129, 3}
CodeBytes == {0, 1}
ChecksumFields == {<<0, 0>>, <<18, 52>>}
FirstBytes == {69, 70, 68, 64, 101, 79}
TtlBytes == {64, 255}
ProtocolBytes == {1, 17}

SeqsUpTo(S, n) == UNION {[1..k -> S] : k \in 0..n}

Payloads == SeqsUpTo(PayloadBytes, MaxPayloadLen)
Requests == [ident : Idents, seq_cnt : SeqCnts, payload : Payloads]

\* vec![fill; n]
EncodeBuffers == {[i \in 1..n |-> f] : n \in 0..MaxBufferLen, f \in FillBytes}

Prefixes(b) == {SubSeq(b, 1, n) : n \in 0..Len(b)}

\* frames as a peer could send them, and their truncations
ReplyFrames ==
    UNION {Prefixes(<<t, c>> \o k \o to_be_bytes(id) \o to_be_bytes(1) \o pl) :
              t \in TypeBytes, c \in CodeBytes, k \in ChecksumFields,
              id \in {4660, 65535}, pl \in {<<>>, <<171>>, <<1, 2, 3>>}}

\* IPv4 datagrams: byte 0 version/IHL, byte 8 TTL, byte 9 protocol
IpFrames ==
    {[i \in 1..n |-> IF i = 1 THEN b0
                     ELSE IF i = 9 THEN ttl
                     ELSE IF i = 10 THEN pr
                     ELSE (7 * i) % 256] :
        n \in 0..MaxIpLen, b0 \in FirstBytes, ttl \in TtlBytes, pr \in ProtocolBytes}

RawBuffers == SeqsUpTo(RawBytes, MaxRawLen) \cup ReplyFrames \cup IpFrames

DefaultRequest == [ident |-> 4660, seq_cnt |-> 1, payload |-> <<171, 255>>]

-----------------------------------------------------------------------------
(* The calls.                                                              *)

Init ==
    /\ P \in Variants
    /\ \/ request \in Requests /\ buffer \in EncodeBuffers
       \/ request = DefaultRequest /\ buffer \in RawBuffers
    /\ ret = [status |-> "none"]
    /\ calls = <<>>
    /\ NoApp

\* request.encode::<P>(&mut buffer)
Encode ==
    /\ calls = <<>>
    /\ LET r == EchoRequest_encode(P, request, buffer)
       IN  /\ buffer' = r.buffer
           /\ ret' = [status |-> r.status]
    /\ calls' = Append(calls, "encode")
    /\ UNCHANGED <<P, request, appvars>>

\* request.encode::<P>(&mut buffer) of src/ping/src/icmp.rs
EncodeIcmpRs ==
    /\ calls = <<>>
    /\ LET r == icmp_rs_EchoRequest_encode(P, request, buffer)
       IN  /\ buffer' = r.buffer
           /\ ret' = [status |-> r.status]
    /\ calls' = Append(calls, "encode_icmp_rs")
    /\ UNCHANGED <<P, request, appvars>>

\* EchoReply::decode::<P>(&buffer), on a received buffer or on the one
\* encode has just filled
Decode ==
    /\ \/ calls = <<>>
       \/ calls = <<"encode">> /\ ret.status = "ok"
    /\ ret' = EchoReply_decode(P, buffer)
    /\ calls' = Append(calls, "decode")
    /\ UNCHANGED <<P, request, buffer, appvars>>

\* get_checksum(&buffer)
GetChecksum ==
    /\ \/ calls = <<>>
       \/ calls = <<"encode">> /\ ret.status = "ok"
    /\ ret' = [status |-> "ok", sum |-> get_checksum(buffer)]
    /\ calls' = Append(calls, "get_checksum")
    /\ UNCHANGED <<P, request, buffer, appvars>>

\* write_checksum(&mut buffer)
WriteChecksum ==
    /\ calls = <<>>
    /\ LET r == write_checksum(buffer)
       IN  /\ buffer' = r.buffer
           /\ ret' = [status |-> r.status]
    /\ calls' = Append(calls, "write_checksum")
    /\ UNCHANGED <<P, request, appvars>>

\* IpV4Packet::decode(&buffer)
IpDecode ==
    /\ calls = <<>>
    /\ ret' = IpV4Packet_decode(buffer)
    /\ calls' = Append(calls, "ip_decode")
    /\ UNCHANGED <<P, request, buffer, appvars>>

Next == Encode \/ EncodeIcmpRs \/ Decode \/ GetChecksum \/ WriteChecksum \/ IpDecode

Spec == Init /\ [][Next]_vars

-----------------------------------------------------------------------------
(* The timestamp codec on its own: a request is encoded into a buffer,     *)
(* and a buffer (received, or just encoded) is decoded.                    *)

\* 0, 0x01020304, 0xfffefdfc
Timestamps == {[hi |-> 0, lo |-> 0], [hi |-> 258, lo |-> 772],
               [hi |-> 65534, lo |-> 65020]}

TimestampRequests ==
    [ident : {4660}, seq_cnt : {1, 65280},
     orig_timestamp : Timestamps, recv_timestamp : Timestamps,
     tran_timestamp : Timestamps]

\* zeroed buffers, and frames as a peer could send them
TimestampBuffers ==
    {[i \in 1..n |-> 0] : n \in 0..MaxTsLen}
      \cup {[i \in 1..n |-> IF i = 1 THEN t ELSE IF i = 2 THEN c ELSE (11 * i) % 256] :
               n \in 0..MaxTsLen, t \in {14, 13, 3}, c \in CodeBytes}

InitTimestamp ==
    /\ P = "IcmpV4"
    /\ request \in TimestampRequests
    /\ buffer \in TimestampBuffers
    /\ ret = [status |-> "none"]
    /\ calls = <<>>
    /\ NoApp

\* request.encode::<IcmpV4>(&mut buffer)
TimestampEncode ==
    /\ calls = <<>>
    /\ LET r == TimestampRequest_encode(P, request, buffer)
       IN  /\ buffer' = r.buffer
           /\ ret' = [status |-> r.status]
    /\ calls' = Append(calls, "ts_encode")
    /\ UNCHANGED <<P, request, appvars>>

\* TimestampReply::decode::<IcmpV4>(&buffer)
TimestampDecode ==
    /\ \/ calls = <<>>
       \/ calls = <<"ts_encode">> /\ ret.status = "ok"
    /\ ret' = TimestampReply_decode(P, buffer)
    /\ calls' = Append(calls, "ts_decode")
    /\ UNCHANGED <<P, request, buffer, appvars>>

NextTimestamp == TimestampEncode \/ TimestampDecode

SpecTimestamp == InitTimestamp /\ [][NextTimestamp]_vars

\* u32 values: 0, 1, 2, 2^16 - 1, 2^16, 0x01020304, 2^31, the offset of
\* now, 3000000000, 2^32 - 1
U32s ==
    {[hi |-> 0, lo |-> 0], [hi |-> 0, lo |-> 1], [hi |-> 0, lo |-> 2],
     [hi |-> 0, lo |-> 65535], [hi |-> 1, lo |-> 0], [hi |-> 258, lo |-> 772],
     [hi |-> 32768, lo |-> 0], [hi |-> 33297, lo |-> 6144],
     [hi |-> 45776, lo |-> 24064], [hi |-> 65535, lo |-> 65535]}

\* the operands of an operation; for now, the milliseconds since the epoch
\* are top * 2^32 + lhs
InitTimestampOps ==
    /\ P = "IcmpV4"
    /\ request \in [lhs : U32s, rhs : U32s, top : {0, 416}]
    /\ buffer = <<>>
    /\ ret = [status |-> "none"]
    /\ calls = <<>>
    /\ NoApp

\* Timestamp(lhs) + Timestamp(rhs)
TimestampAdd ==
    /\ calls = <<>>
    /\ ret' = [status |-> "ok", value |-> Timestamp_add(request.lhs, request.rhs)]
    /\ calls' = Append(calls, "ts_add")
    /\ UNCHANGED <<P, request, buffer, appvars>>

\* Timestamp(lhs) - Timestamp(rhs)
TimestampSub ==
    /\ calls = <<>>
    /\ ret' = [status |-> "ok", value |-> Timestamp_sub(request.lhs, request.rhs)]
    /\ calls' = Append(calls, "ts_sub")
    /\ UNCHANGED <<P, request, buffer, appvars>>

\* Timestamp(lhs) * rhs
TimestampMul ==
    /\ calls = <<>>
    /\ ret' = [status |-> "ok", value |-> Timestamp_mul(request.lhs, request.rhs)]
    /\ calls' = Append(calls, "ts_mul")
    /\ UNCHANGED <<P, request, buffer, appvars>>

\* Timestamp::now() at top * 2^32 + lhs milliseconds after the epoch
TimestampNow ==
    /\ calls = <<>>
    /\ ret' \in Timestamp_now([top |-> request.top, hi |-> request.lhs.hi,
                               lo |-> request.lhs.lo])
    /\ calls' = Append(calls, "ts_now")
    /\ UNCHANGED <<P, request, buffer, appvars>>

NextTimestampOps == TimestampAdd \/ TimestampSub \/ TimestampMul \/ TimestampNow

SpecTimestampOps == InitTimestampOps /\ [][NextTimestampOps]_vars

-----------------------------------------------------------------------------
(* PingApp::run and PingApp::ping, statement by statement.                 *)

Rtts == {30, 50, 12000}

Apps ==
    [ipv4 : BOOLEAN, timeout : {None, Some(20000)}, ttl : {None, Some(128)},
     ident : {None, Some(65535)}, seq_cnt : {None}, size : {None, Some(1)},
     cnt : 0..MaxCnt]

\* id() as u16
Pid == 4660

\* payload.push(random()), size times
RandomPayloads(size) == {[k \in 1..size |-> (171 + 37 * k) % 256]}

\* an ICMP frame with its checksum filled in
IcmpFrame(t, c, id, seq, pl) ==
    write_checksum(<<t, c, 0, 0>> \o to_be_bytes(id) \o to_be_bytes(seq) \o pl).buffer

\* an IPv4 datagram around d, its header 20 bytes, or 24 with options
\* (byte 0 = 0x46)
IpDatagram(b0, ttl, pr, d) ==
    [k \in 1..(IF b0 = 70 THEN 24 ELSE 20) |-> IF k = 1 THEN b0
                     ELSE IF k = 9 THEN ttl
                     ELSE IF k = 10 THEN pr
                     ELSE 0] \o d

\* the echo reply a peer answers req with
EchoOf(p, req) ==
    IcmpFrame(REPLY_TYPE(p), REPLY_CODE(p), req.ident, req.seq_cnt, req.payload)

\* other ICMP frames that can arrive: a reply to another process, a
\* destination-unreachable, a truncated frame
StrayFrames(p, req) ==
    {IcmpFrame(REPLY_TYPE(p), REPLY_CODE(p), (req.ident + 1) % U16, 7, req.payload),
     IcmpFrame(3, 1, 0, 0, <<69, 0>>),
     <<REPLY_TYPE(p), 0, 0, 0>>}

\* what socket.read can put in the buffer, and after how long
ReadOutcomes(p, req) ==
    IF p = "IcmpV4"
    THEN {[frame |-> IpDatagram(69, 64, 1, EchoOf(p, req)), delay |-> d] : d \in Rtts}
           \cup {[frame |-> IpDatagram(69, 64, 1, f), delay |-> 30] :
                    f \in StrayFrames(p, req)}
           \cup {[frame |-> IpDatagram(b0, 255, pr, EchoOf(p, req)), delay |-> 30] :
                    b0 \in {68, 101}, pr \in {1, 17}}
           \cup {[frame |-> IpDatagram(70, 57, 1, EchoOf(p, req)), delay |-> 30]}
           \cup {[frame |-> <<69, 0, 0>>, delay |-> 30]}
    ELSE {[frame |-> EchoOf(p, req), delay |-> d] : d \in Rtts}
           \cup {[frame |-> f, delay |-> 30] : f \in StrayFrames(p, req)}

InitPing ==
    /\ app \in Apps
    /\ P = IF app.ipv4 THEN "IcmpV4" ELSE "IcmpV6"
    /\ request = NoRequest
    /\ buffer = <<>>
    /\ ret = [status |-> "none"]
    /\ calls = <<>>
    /\ pc = "run"
    /\ attempts = 0
    /\ stats = Statistics_new
    /\ outcomes = <<>>
    /\ socket = None
    /\ now = 0
    /\ timer = 0
    /\ pdata = NoData
    /\ report = None

Logged(op, at) == Append(calls, [op |-> op, at |-> at])

\* run: let mut stats = Statistics::new(); stats.total_packet_cnt = self.cnt
RunStart ==
    /\ pc = "run"
    /\ stats' = [Statistics_new EXCEPT !.total_packet_cnt = app.cnt]
    /\ pc' = loop_head(0, app.cnt)
    /\ UNCHANGED <<P, request, buffer, ret, calls, app, attempts, outcomes, socket,
                   now, timer, pdata, report>>

\* ping: buffer, payload, request, request.encode::<P>(&mut buffer)
PingEncode ==
    /\ pc = "encode"
    /\ \E payload \in RandomPayloads(unwrap_or(app.size, 32)) :
          LET size == unwrap_or(app.size, 32)
              req == [ident |-> unwrap_or(app.ident, Pid),
                      seq_cnt |-> unwrap_or(app.seq_cnt, 1),
                      payload |-> payload]
              r == EchoRequest_encode(P, req, [k \in 1..(size + HEADER_SIZE) |-> 0])
          IN  /\ request' = req
              /\ buffer' = r.buffer
              /\ pc' = IF r.status = "ok" THEN ping_next("encode", P) ELSE "panic"
    /\ now' = 0
    /\ timer' = 0
    /\ pdata' = NoData
    /\ ret' = [status |-> "none"]
    /\ calls' = <<[op |-> "encode", at |-> 0]>>
    /\ UNCHANGED <<P, app, attempts, stats, outcomes, socket, report>>

\* an io::Error leaves ping through the ? operator; the socket is dropped
IoFails(op) ==
    /\ ret' = [status |-> "IoError", op |-> op]
    /\ pc' = "match"
    /\ socket' = None
    /\ calls' = Logged(op, now)
    /\ UNCHANGED <<P, request, buffer, app, attempts, stats, outcomes, now, timer,
                   pdata, report>>

\* Socket::new(domain, Type::RAW, Some(protocol))?
SocketNew ==
    /\ pc = "socket_new"
    /\ \/ /\ socket' = Some([ttl |-> None, write_timeout |-> None,
                             read_timeout |-> None])
          /\ pc' = ping_next("socket_new", P)
          /\ calls' = Logged("socket_new", now)
          /\ UNCHANGED <<P, request, buffer, ret, app, attempts, stats, outcomes, now,
                         timer, pdata, report>>
       \/ IoFails("socket_new")

\* socket.set_ttl(self.ttl.unwrap_or(64))?
SetTtl ==
    /\ pc = "set_ttl"
    /\ \/ /\ socket' = Some([socket[1] EXCEPT !.ttl = Some(ping_ttl(app))])
          /\ pc' = ping_next("set_ttl", P)
          /\ calls' = Logged("set_ttl", now)
          /\ UNCHANGED <<P, request, buffer, ret, app, attempts, stats, outcomes, now,
                         timer, pdata, report>>
       \/ IoFails("set_ttl")

\* socket.set_write_timeout(timeout)?
SetWriteTimeout ==
    /\ pc = "set_write_timeout"
    /\ \/ /\ socket' = Some([socket[1] EXCEPT
                                !.write_timeout = Some(ping_timeout(app))])
          /\ pc' = ping_next("set_write_timeout", P)
          /\ calls' = Logged("set_write_timeout", now)
          /\ UNCHANGED <<P, request, buffer, ret, app, attempts, stats, outcomes, now,
                         timer, pdata, report>>
       \/ IoFails("set_write_timeout")

\* socket.send_to(&buffer, &dest.into())?  (the send takes 5 ms)
SendTo ==
    /\ pc = "send_to"
    /\ \/ /\ now' = now + 5
          /\ pc' = ping_next("send_to", P)
          /\ calls' = Logged("send_to", now')
          /\ UNCHANGED <<P, request, buffer, ret, app, attempts, stats, outcomes,
                         socket, timer, pdata, report>>
       \/ IoFails("send_to")

\* socket.set_read_timeout(timeout)?
SetReadTimeout ==
    /\ pc = "set_read_timeout"
    /\ \/ /\ socket' = Some([socket[1] EXCEPT
                                !.read_timeout = Some(ping_timeout(app))])
          /\ pc' = ping_next("set_read_timeout", P)
          /\ calls' = Logged("set_read_timeout", now)
          /\ UNCHANGED <<P, request, buffer, ret, app, attempts, stats, outcomes, now,
                         timer, pdata, report>>
       \/ IoFails("set_read_timeout")

\* let timer = Instant::now()
TimerStart ==
    /\ pc = "timer_start"
    /\ timer' = now
    /\ pc' = ping_next("timer_start", P)
    /\ calls' = Logged("timer_start", now)
    /\ UNCHANGED <<P, request, buffer, ret, app, attempts, stats, outcomes, socket,
                   now, pdata, report>>

\* let size = socket.read(&mut buffer)?: bytes arrive within the read
\* timeout, or the read fails (a timeout is an io::Error)
Read ==
    /\ pc = "read"
    /\ \/ \E o \in ReadOutcomes(P, request) :
             /\ o.delay <= socket[1].read_timeout[1]
             /\ buffer' = o.frame
             /\ now' = now + o.delay
             /\ pc' = ping_next("read", P)
             /\ calls' = Logged("read", now')
             /\ UNCHANGED <<P, request, ret, app, attempts, stats, outcomes, socket,
                            timer, pdata, report>>
       \/ IoFails("read")

\* let mut data = Data { ttl: None, time: timer.elapsed() }
Elapsed ==
    /\ pc = "elapsed"
    /\ pdata' = [ttl |-> None, time |-> now - timer]
    /\ pc' = ping_next("elapsed", P)
    /\ calls' = Logged("elapsed", now)
    /\ UNCHANGED <<P, request, buffer, ret, app, attempts, stats, outcomes, socket,
                   now, timer, report>>

\* IpV4Packet::decode(&buffer[..size]).map_err(InvalidIpPacket)?;
\* data.ttl = Some(ipv4_packet.ttl)   (parsing takes 1 ms)
PingIpDecode ==
    /\ pc = "ip_decode"
    /\ now' = now + 1
    /\ calls' = Logged("ip_decode", now')
    /\ LET r == IpV4Packet_decode(buffer)
       IN  IF r.status = "ok"
           THEN /\ pdata' = [pdata EXCEPT !.ttl = Some(r.ttl)]
                /\ pc' = ping_next("ip_decode", P)
                /\ UNCHANGED <<ret, socket>>
           ELSE /\ ret' = [status |-> "InvalidIpPacket", cause |-> r.status]
                /\ pc' = "match"
                /\ socket' = None
                /\ UNCHANGED pdata
    /\ UNCHANGED <<P, request, buffer, app, attempts, stats, outcomes, timer,
                   report>>

\* EchoReply::decode::<IcmpV4>(ipv4_packet.data) or
\* EchoReply::decode::<IcmpV6>(&buffer[..size]), .map_err(InvaildICMPPacket)?;
\* Ok(data)   (decoding takes 1 ms)
PingIcmpDecode ==
    /\ pc = "icmp_decode"
    /\ now' = now + 1
    /\ calls' = Logged("icmp_decode", now')
    /\ LET received == IF P = "IcmpV4" THEN IpV4Packet_decode(buffer).data
                       ELSE buffer
           r == EchoReply_decode(P, received)
       IN  ret' = IF r.status = "ok"
                  THEN [status |-> "ok", data |-> pdata, reply |-> r]
                  ELSE [status |-> "InvaildICMPPacket", cause |-> r.status]
    /\ pc' = ping_next("icmp_decode", P)
    /\ socket' = None
    /\ UNCHANGED <<P, request, buffer, app, attempts, stats, outcomes, timer, pdata,
                   report>>

\* run: match self.ping() { Ok(data) => .. }
MatchOk ==
    /\ pc = "match"
    /\ ret.status = "ok"
    /\ stats' = run_on_ok(stats, ret.data)
    /\ outcomes' = Append(outcomes, Some(ret.data.time))
    /\ attempts' = attempts + 1
    /\ pc' = loop_head(attempts + 1, app.cnt)
    /\ UNCHANGED <<P, request, buffer, ret, calls, app, socket, now, timer,
                   pdata, report>>

\* run: match self.ping() { Err(err) => .. }
MatchErr ==
    /\ pc = "match"
    /\ ret.status # "ok"
    /\ stats' = run_on_err(stats)
    /\ outcomes' = Append(outcomes, None)
    /\ attempts' = attempts + 1
    /\ pc' = loop_head(attempts + 1, app.cnt)
    /\ UNCHANGED <<P, request, buffer, ret, calls, app, socket, now, timer,
                   pdata, report>>

\* run: if stats.min_time > stats.max_time { .. }
Normalize ==
    /\ pc = "loop_end"
    /\ stats' = run_normalize(stats, app.cnt)
    /\ pc' = "report"
    /\ UNCHANGED <<P, request, buffer, ret, calls, app, attempts, outcomes, socket,
                   now, timer, pdata, report>>

\* run: recv, lost, max_time, min_time, avg_time and the println!s;
\* Duration / 0 panics
Report ==
    /\ pc = "report"
    /\ IF stats.total_packet_cnt = 0
       THEN /\ pc' = "panic"
            /\ UNCHANGED report
       ELSE /\ pc' = "done"
            /\ report' = Some([recv |-> stats.total_packet_cnt - stats.lost_packet_cnt,
                               lost |-> stats.lost_packet_cnt,
                               max_time |-> stats.max_time,
                               min_time |-> stats.min_time,
                               avg_time |-> stats.total_time \div stats.total_packet_cnt])
    /\ UNCHANGED <<P, request, buffer, ret, calls, app, attempts, stats, outcomes,
                   socket, now, timer, pdata>>

NextPing ==
    \/ RunStart \/ PingEncode \/ SocketNew \/ SetTtl \/ SetWriteTimeout
    \/ SendTo \/ SetReadTimeout \/ TimerStart \/ Read \/ Elapsed
    \/ PingIpDecode \/ PingIcmpDecode \/ MatchOk \/ MatchErr
    \/ Normalize \/ Report

SpecPing == InitPing /\ [][NextPing]_vars

-----------------------------------------------------------------------------
(* Properties of the echo codec and the checksum.                          *)

IsZeroed(b) == \A i \in 1..Len(b) : b[i] = 0

ExactFit == Len(buffer) = HEADER_SIZE + Len(request.payload)

LastCall == IF calls = <<>> THEN "none" ELSE calls[Len(calls)]

\* C1: after encode into a freshly zeroed buffer of length 8 + payload
\* length, encode has returned normally and the checksum of the whole
\* encoded buffer, checksum field included, is 0 (both variants, even and
\* odd payload lengths).
C1_EncodedChecksumIsZero ==
    [][(calls = <<>> /\ calls' = <<"encode">> /\ IsZeroed(buffer) /\ ExactFit)
          => (ret'.status = "ok" /\ get_checksum(buffer') = 0)]_vars

\* C1 witness: an IcmpV6 request with an odd-length payload was encoded into
\* a buffer of exactly its size and the checksum recomputed over it is 0.
C1_Witness ==
    /\ calls = <<"encode", "get_checksum">>
    /\ ExactFit
    /\ P = "IcmpV6"
    /\ Len(request.payload) % 2 = 1
    /\ buffer[3] * 256 + buffer[4] # 0
    /\ ret.sum = 0

\* C2: decode of the buffer encode has filled (length 8 + payload length)
\* succeeds and returns the request's ident, seq_cnt and payload, for both
\* variants and every payload length, 0 and odd lengths included.
C2_RoundTrip ==
    /\ (calls = <<"encode">> /\ ExactFit) => ret.status = "ok"
    /\ (calls = <<"encode", "decode">> /\ ExactFit)
          => /\ ret.status = "ok"
             /\ ret.ident = request.ident
             /\ ret.seq_cnt = request.seq_cnt
             /\ ret.payload = request.payload

\* C2 witness: an IcmpV4 request with a one-byte payload and an ident whose
\* two bytes differ was encoded and decoded back.
C2_Witness ==
    /\ calls = <<"encode", "decode">>
    /\ ExactFit
    /\ P = "IcmpV4"
    /\ Len(request.payload) = 1
    /\ request.ident = 4660
    /\ ret.status = "ok"
    /\ ret.payload = request.payload

\* C3: decode of a buffer of length 0..7 returns InvalidSize whatever the
\* bytes and the variant; the size check comes before the type/code check.
C3_ShortBufferInvalidSize ==
    (LastCall = "decode" /\ Len(buffer) < HEADER_SIZE)
        => ret.status = "InvalidSize"

\* C3 witness: a 7-byte buffer whose type and code both differ from the
\* reply's was decoded.
C3_Witness ==
    /\ calls = <<"decode">>
    /\ Len(buffer) = 7
    /\ buffer[1] # REPLY_TYPE(P)
    /\ buffer[2] # REPLY_CODE(P)
    /\ ret.status = "InvalidSize"

\* C4: decode of a buffer of length >= 8 whose type byte differs from the
\* variant's reply type fails with InvalidPacket, whatever the code byte.
C4_TypeMismatchRejected ==
    (LastCall = "decode" /\ Len(buffer) >= HEADER_SIZE
         /\ buffer[1] # REPLY_TYPE(P))
        => ret.status = "InvalidPacket"

\* C5: encode (of either version of the module) into a buffer shorter than
\* 8 + payload length fails with InvalidSize: it neither succeeds with a
\* truncated payload nor panics.
C5_ShortBufferInvalidSize ==
    (LastCall \in {"encode", "encode_icmp_rs"}
         /\ Len(buffer) < HEADER_SIZE + Len(request.payload))
        => ret.status = "InvalidSize"

\* C6: after a successful encode byte 0 is the request type, byte 1 is 0,
\* bytes 4-5 the ident and bytes 6-7 the seq_cnt (big-endian), bytes
\* 8..8+n the n payload bytes; bytes 2-3 are the checksum taken once all
\* those fields are in place, and no byte past 8+n is modified.
C6_EncodedLayout ==
    [][(calls = <<>> /\ calls' = <<"encode">> /\ ret'.status = "ok")
          => LET n == Len(request.payload)
                 before23 == [i \in 1..Len(buffer') |->
                                 IF i \in {3, 4} THEN buffer[i] ELSE buffer'[i]]
             IN  /\ Len(buffer') = Len(buffer)
                 /\ Len(buffer') >= HEADER_SIZE + n
                 /\ buffer'[1] = REQUEST_TYPE(P)
                 /\ buffer'[2] = 0
                 /\ buffer'[5] * 256 + buffer'[6] = request.ident
                 /\ buffer'[7] * 256 + buffer'[8] = request.seq_cnt
                 /\ \A i \in 1..n : buffer'[HEADER_SIZE + i] = request.payload[i]
                 /\ buffer'[3] * 256 + buffer'[4] = get_checksum(before23)
                 /\ \A i \in (HEADER_SIZE + n + 1)..Len(buffer) :
                        buffer'[i] = buffer[i]]_vars

\* the 16-bit one's-complement sum, adding word by word with end-around
\* carry; an odd final byte b is the word b * 256
OnesAdd(a, b) == IF a + b >= U16 THEN a + b - (U16 - 1) ELSE a + b

RECURSIVE OnesSum(_)
OnesSum(b) ==
    IF Len(b) = 0 THEN 0
    ELSE IF Len(b) = 1 THEN b[1] * 256
    ELSE OnesAdd(b[1] * 256 + b[2], OnesSum(SubSeq(b, 3, Len(b))))

\* C7: get_checksum returns the bitwise NOT of the 16-bit one's-complement
\* sum of the buffer read as big-endian words, for empty, even and odd
\* buffers.
C7_ChecksumIsOnesComplement ==
    LastCall = "get_checksum" => ret.sum = (U16 - 1) - OnesSum(buffer)

\* C7 witness: the checksum of an odd-length buffer with a non-zero last
\* byte whose 32-bit sum carries past bit 16 was taken.
C7_Witness ==
    /\ calls = <<"get_checksum">>
    /\ Len(buffer) % 2 = 1
    /\ buffer[Len(buffer)] # 0
    /\ SumChunks(buffer, 0, AsU32(0)).hi > 0
    /\ ret.sum = (U16 - 1) - OnesSum(buffer)

Zeroed23(b) == [i \in 1..Len(b) |-> IF i \in {3, 4} THEN 0 ELSE b[i]]

\* C8: write_checksum stores in bytes 2-3 the big-endian checksum of the
\* buffer with bytes 2-3 taken as zero (so two buffers differing only there
\* end with the same bytes 2-3), and changes no other byte.
C8_ChecksumFieldTakenAsZero ==
    [][(calls = <<>> /\ calls' = <<"write_checksum">> /\ ret'.status = "ok")
          => /\ Len(buffer') = Len(buffer)
             /\ buffer'[3] * 256 + buffer'[4] = get_checksum(Zeroed23(buffer))
             /\ \A i \in 1..Len(buffer) : i \notin {3, 4} => buffer'[i] = buffer[i]]_vars

-----------------------------------------------------------------------------
(* Properties of the IPv4 header parser.                                   *)

VersionNibble(b) == b[1] \div 16
HeaderLength(b) == 4 * (b[1] % 16)

\* the first failing check, in the order the claim gives
FirstFailure(b) ==
    CASE Len(b) < 20 -> "TooSmallHeader"
      [] Len(b) >= 20 /\ VersionNibble(b) # 4 -> "InvalidVersion"
      [] Len(b) >= 20 /\ VersionNibble(b) = 4 /\ Len(b) < HeaderLength(b)
            -> "InvalidHeaderSize"
      [] Len(b) >= 20 /\ VersionNibble(b) = 4 /\ Len(b) >= HeaderLength(b)
            /\ b[10] # 1 -> "UnknownProtocol"
      [] OTHER -> "ok"

\* C9: IpV4Packet::decode reports the first failing check in the order
\* TooSmallHeader, InvalidVersion, InvalidHeaderSize, UnknownProtocol, and
\* succeeds when none fails.
C9_IpDecodeCheckOrder ==
    calls = <<"ip_decode">> => ret.status = FirstFailure(buffer)

\* C9 witness: a datagram of at least 20 bytes, version 4, shorter than its
\* header length and with a protocol byte other than 1 was parsed and gave
\* InvalidHeaderSize.
C9_Witness ==
    /\ calls = <<"ip_decode">>
    /\ Len(buffer) >= 20
    /\ VersionNibble(buffer) = 4
    /\ Len(buffer) < HeaderLength(buffer)
    /\ buffer[10] # 1
    /\ ret.status = "InvalidHeaderSize"

\* C10: when IpV4Packet::decode succeeds protocol is Icmp, ttl is byte 8
\* and data is the suffix of the buffer from offset 4 * (low nibble of byte
\* 0); a header with version 4, header-length nibble 5, protocol 1 and TTL
\* 64 parses to ttl 64 and data starting at offset 20.
C10_IpDecodeFields ==
    /\ (calls = <<"ip_decode">> /\ ret.status = "ok")
          => /\ ret.protocol = "Icmp"
             /\ ret.ttl = buffer[9]
             /\ Len(ret.data) = Len(buffer) - HeaderLength(buffer)
             /\ \A i \in 1..Len(ret.data) :
                    ret.data[i] = buffer[HeaderLength(buffer) + i]
    /\ (calls = <<"ip_decode">> /\ Len(buffer) >= 20 /\ buffer[1] = 69
            /\ buffer[9] = 64 /\ buffer[10] = 1)
          => /\ ret.status = "ok"
             /\ ret.ttl = 64
             /\ ret.data = SubSeq(buffer, 21, Len(buffer))

\* C10 witness: a datagram with a 24-byte header (header-length nibble 6)
\* and TTL 64 was parsed and its data is not empty.
C10_Witness ==
    /\ calls = <<"ip_decode">>
    /\ ret.status = "ok"
    /\ buffer[1] = 70
    /\ ret.ttl = 64
    /\ Len(ret.data) > 0

\* C11: the IPv4 header is never taken to be shorter than 20 bytes: when
\* IpV4Packet::decode succeeds the header-length nibble is at least 5 and
\* the data starts at offset 20 or later, so bytes 0..19 are not part of it.
C11_HeaderAtLeast20 ==
    (calls = <<"ip_decode">> /\ ret.status = "ok")
        => /\ buffer[1] % 16 >= 5
           /\ Len(ret.data) <= Len(buffer) - 20

-----------------------------------------------------------------------------
(* Properties of the timestamp codec.                                      *)

\* C18: TimestampReply::decode of a buffer shorter than 20 bytes returns a
\* decode error (it does not abort on an out-of-range slice).
C18_ShortTimestampBufferRejected ==
    (LastCall = "ts_decode" /\ Len(buffer) < 20)
        => ret.status \in {"InvalidSize", "InvalidPacket"}

\* C19: decoding the buffer TimestampRequest::encode has written returns
\* the originate, receive and transmit timestamps that were encoded (each
\* field is read as a big-endian 32-bit value).
C19_TimestampRoundTrip ==
    (calls = <<"ts_encode", "ts_decode">> /\ ret.status = "ok")
        => /\ ret.orig_timestamp = request.orig_timestamp
           /\ ret.recv_timestamp = request.recv_timestamp
           /\ ret.tran_timestamp = request.tran_timestamp

-----------------------------------------------------------------------------
(* Properties of PingApp::run and PingApp::ping.                           *)

Succeeded(os) == {k \in 1..Len(os) : os[k] # None}
Failed(os) == {k \in 1..Len(os) : os[k] = None}

RECURSIVE SumRtt(_)
SumRtt(os) ==
    IF os = <<>> THEN 0
    ELSE (IF os[1] = None THEN 0 ELSE os[1][1]) + SumRtt(Tail(os))

SmallestRtt(os) ==
    CHOOSE t \in {os[k][1] : k \in Succeeded(os)} :
        \A k \in Succeeded(os) : t <= os[k][1]

LargestRtt(os) ==
    CHOOSE t \in {os[k][1] : k \in Succeeded(os)} :
        \A k \in Succeeded(os) : t >= os[k][1]

\* C12: once the loop has ended after at least one success,
\* lost_packet_cnt is the number of failed attempts, total_time the sum of
\* the round-trip times of the successful ones and min_time the smallest of
\* them.
C12_LoopEndStatistics ==
    (pc = "loop_end" /\ Succeeded(outcomes) # {})
        => /\ stats.lost_packet_cnt = Cardinality(Failed(outcomes))
           /\ stats.total_time = SumRtt(outcomes)
           /\ stats.min_time = SmallestRtt(outcomes)

\* C12 witness: the loop has ended after [50 ms, lost, 30 ms] with lost 1,
\* total 80 ms and min 30 ms.
C12_Witness ==
    /\ pc = "loop_end"
    /\ outcomes = <<Some(50), None, Some(30)>>
    /\ stats.lost_packet_cnt = 1
    /\ stats.total_time = 80
    /\ stats.min_time = 30

\* C13: once the loop has ended after at least one success, max_time is
\* the largest round-trip time of the successful attempts (a failed attempt
\* leaves it alone).
C13_MaxTimeIsLargestRtt ==
    (pc = "loop_end" /\ Succeeded(outcomes) # {})
        => stats.max_time = LargestRtt(outcomes)

\* C14: when every attempt of a run with count >= 1 failed, after the
\* normalization min_time = max_time, total_time = max_time * count, the
\* reported average is max_time, and min_time is not the sentinel.
C14_TotalLossNormalized ==
    /\ (pc \in {"report", "done"} /\ app.cnt >= 1 /\ Succeeded(outcomes) = {})
          => /\ stats.min_time = stats.max_time
             /\ stats.total_time = stats.max_time * app.cnt
             /\ stats.min_time # SENTINEL
    /\ (pc = "done" /\ Succeeded(outcomes) = {})
          => /\ report[1].avg_time = stats.max_time
             /\ report[1].min_time = report[1].max_time

\* C14 witness: a run of two attempts, both lost, has printed its figures.
C14_Witness ==
    /\ pc = "done"
    /\ app.cnt = 2
    /\ outcomes = <<None, None>>
    /\ report[1].avg_time = 9999
    /\ report[1].min_time = 9999

\* C15: no failure of an attempt aborts the run: every attempt is counted
\* once, as received or as lost; lost_packet_cnt never exceeds
\* total_packet_cnt; when the loop has ended exactly cnt attempts were made
\* and lost + received = total_packet_cnt = cnt.
C15_EveryAttemptCounted ==
    /\ attempts = Len(outcomes)
    /\ attempts <= app.cnt
    /\ stats.lost_packet_cnt = Cardinality(Failed(outcomes))
    /\ pc # "run" => /\ stats.total_packet_cnt = app.cnt
                     /\ stats.lost_packet_cnt <= stats.total_packet_cnt
    /\ pc \in {"loop_end", "report", "done", "panic"}
          => /\ attempts = app.cnt
             /\ stats.lost_packet_cnt + Cardinality(Succeeded(outcomes))
                    = stats.total_packet_cnt
    /\ pc = "panic" => attempts = 0
    /\ pc = "match" => attempts < app.cnt

\* C15 witness: a run of three attempts has ended with two lost and one
\* received, the last one lost to an ICMP decode error.
C15_Witness ==
    /\ pc = "done"
    /\ app.cnt = 3
    /\ ret.status = "InvaildICMPPacket"
    /\ report[1].lost = 2
    /\ report[1].recv = 1

SocketOpenFailed ==
    pc = "match" /\ ret.status = "IoError" /\ ret.op = "socket_new"

Ops == [k \in 1..Len(calls) |-> calls[k].op]

OpsMade == {calls[k].op : k \in 1..Len(calls)}

\* C16 (as claimed): a failure to open the raw socket is fatal: it is not
\* counted as a lost packet and no attempt follows it.
C16_SocketFailureIsFatal ==
    [][SocketOpenFailed
          => /\ stats'.lost_packet_cnt = stats.lost_packet_cnt
             /\ pc' # "encode"]_vars

\* C16 (amended): the socket is opened inside each attempt; a failure to
\* open it ends that attempt before anything is sent, is counted as one
\* lost packet, and the loop goes on to the next attempt if there is one.
C16_SocketFailureIsLostPacket ==
    [][SocketOpenFailed
          => /\ OpsMade = {"encode", "socket_new"}
             /\ stats'.lost_packet_cnt = stats.lost_packet_cnt + 1
             /\ attempts' = attempts + 1
             /\ pc' = IF attempts + 1 < app.cnt THEN "encode" ELSE "loop_end"]_vars

\* C16 witness: the first attempt failed to open the socket, was counted
\* as lost, and the second attempt is about to begin.
C16_Witness ==
    /\ pc = "encode"
    /\ ret.status = "IoError"
    /\ ret.op = "socket_new"
    /\ outcomes = <<None>>
    /\ stats.lost_packet_cnt = 1

\* C17 (as claimed): when no TTL is configured the session makes no
\* set-TTL call and the socket keeps the default of the OS.
C17_NoTtlCallWithoutConfig ==
    app.ttl = None
        => /\ "set_ttl" \notin OpsMade
           /\ socket # None => socket[1].ttl = None

\* C17 (amended): every attempt sets the socket TTL before it sends: to
\* the configured TTL, or to 64 when none is configured.
C17_TtlAlwaysSet ==
    /\ "send_to" \in OpsMade => "set_ttl" \in OpsMade
    /\ (socket # None /\ "set_write_timeout" \in OpsMade)
          => socket[1].ttl = Some(IF app.ttl = None THEN 64 ELSE app.ttl[1])

\* C17 witness: with no TTL configured the frame was sent on a socket
\* whose TTL was set to 64.
C17_Witness ==
    /\ app.ttl = None
    /\ pc = "set_read_timeout"
    /\ socket[1].ttl = Some(64)

\* the calls of an attempt in the order the claim gives them
AttemptOrder(p) ==
    <<"encode", "socket_new", "set_write_timeout", "send_to",
      "set_read_timeout", "timer_start", "read", "elapsed">>
      \o (IF p = "IcmpV4" THEN <<"ip_decode", "icmp_decode">>
          ELSE <<"icmp_decode">>)

At(op) == calls[CHOOSE k \in 1..Len(calls) : calls[k].op = op].at

\* C20: the calls of an attempt are made in the order encode, socket
\* opened, write timeout set, send, read timeout set, timer started, read,
\* elapsed time taken, IPv4 parsing / ICMP decoding; the round-trip time is
\* the time from the start of the timer, after the send has returned, to
\* the return of the read, and the decoding is not part of it.
C20_AttemptOrder ==
    /\ LET made == SelectSeq(Ops, LAMBDA op : op # "set_ttl")
       IN  /\ Len(made) <= Len(AttemptOrder(P))
           /\ made = SubSeq(AttemptOrder(P), 1, Len(made))
    /\ "elapsed" \in OpsMade
          => /\ pdata.time = At("read") - At("timer_start")
             /\ At("timer_start") >= At("send_to")
    /\ (pc = "match" /\ ret.status = "ok")
          => /\ ret.data.time = At("read") - At("timer_start")
             /\ At("icmp_decode") > At("read")

\* C20 witness: an IPv4 attempt has returned Ok with a round-trip time of
\* 50 ms, the send having taken 5 ms and the parsing 2 ms.
C20_Witness ==
    /\ pc = "match"
    /\ ret.status = "ok"
    /\ P = "IcmpV4"
    /\ ret.data.time = 50
    /\ At("send_to") = 5
    /\ At("read") = 55
    /\ now = 57

-----------------------------------------------------------------------------
(* Further properties of the codec and of PingApp.                         *)

ChecksumBytes == {0, 1, 18, 52, 255}

\* b with bytes 2 and 3 (the checksum field) replaced, where they exist
WithChecksumField(b, x, y) ==
    [k \in 1..Len(b) |-> IF k = 3 THEN x ELSE IF k = 4 THEN y ELSE b[k]]

\* C21: decode does not look at the checksum: a buffer that differs from
\* the decoded one only in bytes 2-3 decodes to the same outcome (the same
\* error, or the same ident, seq_cnt and payload), and the payload returned
\* is buffer[8..].
C21_DecodeIgnoresChecksum ==
    LastCall = "decode"
        => /\ \A x, y \in ChecksumBytes :
                 EchoReply_decode(P, WithChecksumField(buffer, x, y)) = ret
           /\ ret.status = "ok"
                 => ret.payload = [k \in 1..(Len(buffer) - 8) |-> buffer[k + 8]]

\* C21 witness: a received reply frame whose checksum does not verify was
\* decoded to Ok with its three payload bytes.
C21_Witness ==
    /\ calls = <<"decode">>
    /\ ret.status = "ok"
    /\ get_checksum(buffer) # 0
    /\ buffer[3] = 18
    /\ ret.payload = <<1, 2, 3>>

CountOp(op) == Cardinality({k \in 1..Len(calls) : calls[k].op = op})

\* C22: attempts are sequential and there is no retry: an attempt makes at
\* most one send and at most one read; when an attempt sends, the outcome
\* of every earlier attempt has been recorded in Statistics; Statistics
\* changes only outside ping (at the start of run, in the match on the
\* result of ping, in the normalization).
C22_SequentialNoRetry ==
    [][/\ CountOp("send_to")' <= 1
       /\ CountOp("read")' <= 1
       /\ pc' = "send_to" => CountOp("send_to")' = 0
       /\ pc' = "read" => CountOp("read")' = 0
       /\ pc = "send_to"
             => /\ Len(outcomes) = attempts
                /\ stats.lost_packet_cnt = Cardinality(Failed(outcomes))
       /\ stats' # stats => pc \in {"run", "match", "loop_end"}
       /\ outcomes' # outcomes => pc = "match"]_vars

\* C22 witness: the second attempt has sent its frame once, the first
\* attempt being recorded as lost.
C22_Witness ==
    /\ attempts = 1
    /\ outcomes = <<None>>
    /\ stats.lost_packet_cnt = 1
    /\ pc = "set_read_timeout"
    /\ CountOp("send_to") = 1

\* offset of the ICMP datagram in an IPv4 datagram: 4 * (byte 0 & 0x0f)
IcmpOffset(b) == 4 * (b[1] % 16)

\* C23: for IPv4 the received bytes go through IpV4Packet::decode and only
\* the data after the IPv4 header through EchoReply::decode; a failure of
\* the first gives InvalidIpPacket with no ICMP decode; the ttl of a
\* successful attempt is byte 8 of the received buffer.  For IPv6 the
\* received bytes are decoded as they are and the ttl is None.
C23_Ipv4HeaderStripped ==
    /\ (pc = "match" /\ ret.status = "ok" /\ P = "IcmpV4")
          => /\ Ops[Len(Ops) - 1] = "ip_decode"
             /\ Ops[Len(Ops)] = "icmp_decode"
             /\ ret.data.ttl = Some(buffer[9])
             /\ ret.reply.payload =
                    [k \in 1..(Len(buffer) - IcmpOffset(buffer) - 8)
                        |-> buffer[k + IcmpOffset(buffer) + 8]]
             /\ ret.reply.ident = buffer[IcmpOffset(buffer) + 5] * 256
                                    + buffer[IcmpOffset(buffer) + 6]
    /\ (pc = "match" /\ ret.status = "InvalidIpPacket")
          => /\ P = "IcmpV4"
             /\ "icmp_decode" \notin OpsMade
    /\ (pc = "match" /\ ret.status = "ok" /\ P = "IcmpV6")
          => /\ "ip_decode" \notin OpsMade
             /\ ret.data.ttl = None
             /\ ret.reply.payload = [k \in 1..(Len(buffer) - 8) |-> buffer[k + 8]]
             /\ ret.reply.ident = buffer[5] * 256 + buffer[6]

\* C23 witness: an IPv4 attempt on a datagram with a 24-byte header and
\* TTL 57 has returned Ok with ttl Some(57) and the one payload byte.
C23_Witness ==
    /\ pc = "match"
    /\ ret.status = "ok"
    /\ P = "IcmpV4"
    /\ buffer[1] = 70
    /\ ret.data.ttl = Some(57)
    /\ ret.reply.payload = request.payload
    /\ Len(request.payload) = 1

\* C24: the normalization after the loop applies exactly when every attempt
\* failed: with at least one success min_time <= max_time at the end of the
\* loop and total_time stays the sum of the successful round-trip times;
\* with no success min_time > max_time at the end of the loop.
C24_NormalizedIffAllFailed ==
    /\ (pc = "loop_end" /\ Succeeded(outcomes) # {})
          => stats.min_time <= stats.max_time
    /\ (pc \in {"report", "done"} /\ Succeeded(outcomes) # {})
          => stats.total_time = SumRtt(outcomes)
    /\ (pc = "loop_end" /\ Succeeded(outcomes) = {})
          => stats.min_time > stats.max_time

\* C25: when every socket call returns, every attempt comes to its result
\* (Ok or an error), and the run comes to the end of its cnt attempts and
\* prints the statistics.
\* Stated on the runs that have come to a stop (no statement left to
\* execute, or aborted): such a run has made its cnt attempts and printed
\* the statistics.
C25_StoppedRunHasReported ==
    pc \in {"done", "panic"}
        => /\ pc = "done"
           /\ report # None
           /\ attempts = app.cnt

\* C27: when ping returns Ok the decoded Echo Reply carries the identifier
\* and the sequence number of the Echo Request sent in that attempt.
C27_ReplyAnswersRequest ==
    (pc = "match" /\ ret.status = "ok")
        => /\ ret.reply.ident = request.ident
           /\ ret.reply.seq_cnt = request.seq_cnt

\* C28: for a run of at least one attempt, at report time
\* min_time <= total_time / total_packet_cnt <= max_time.
C28_SummaryOrdered ==
    (pc = "done" /\ app.cnt >= 1)
        => /\ report[1].min_time <= report[1].avg_time
           /\ report[1].avg_time <= report[1].max_time

\* C29: for every attempt count, 0 included, run does not divide by a zero
\* total_packet_cnt when it computes the average, and min_time at report
\* time is not the initial sentinel.
C29_StatisticsWellDefined ==
    /\ pc = "report" => /\ stats.total_packet_cnt # 0
                        /\ stats.min_time # SENTINEL
    /\ pc # "panic"

\* a u32 as its four bytes, least significant first
Bytes4(v) == <<v.lo % 256, v.lo \div 256, v.hi % 256, v.hi \div 256>>

\* digit-by-digit sum of two byte strings of one length, the carry out of
\* the last digit dropped
RECURSIVE SumMod(_, _, _)
SumMod(x, y, carry) ==
    IF x = <<>> THEN <<>>
    ELSE <<(x[1] + y[1] + carry) % 256>>
            \o SumMod(Tail(x), Tail(y), (x[1] + y[1] + carry) \div 256)

\* x - y as x + (2^32 - y)
DifferenceMod(x, y) ==
    SumMod(x, SumMod([k \in 1..4 |-> 255 - y[k]], <<1, 0, 0, 0>>, 0), 0)

\* a byte string times one digit, the carry out of the last digit dropped
RECURSIVE ScaleMod(_, _, _)
ScaleMod(x, d, carry) ==
    IF x = <<>> THEN <<>>
    ELSE <<(x[1] * d + carry) % 256>>
            \o ScaleMod(Tail(x), d, (x[1] * d + carry) \div 256)

\* x * 256^k, the digits beyond the fourth dropped
ShiftMod(x, k) == SubSeq([j \in 1..k |-> 0] \o x, 1, 4)

\* long multiplication: the sum of x * y[k] * 256^(k - 1)
ProductMod(x, y) ==
    SumMod(SumMod(ScaleMod(x, y[1], 0), ShiftMod(ScaleMod(x, y[2], 0), 1), 0),
           SumMod(ShiftMod(ScaleMod(x, y[3], 0), 2),
                  ShiftMod(ScaleMod(x, y[4], 0), 3), 0), 0)

\* C26: Timestamp + - * never fail and return (a + b) mod 2^32,
\* (a - b) mod 2^32 and (a * b) mod 2^32.
C26_TimestampArithmeticWraps ==
    /\ LastCall = "ts_add"
          => /\ ret.status = "ok"
             /\ Bytes4(ret.value) = SumMod(Bytes4(request.lhs), Bytes4(request.rhs), 0)
    /\ LastCall = "ts_sub"
          => /\ ret.status = "ok"
             /\ Bytes4(ret.value) = DifferenceMod(Bytes4(request.lhs), Bytes4(request.rhs))
    /\ LastCall = "ts_mul"
          => /\ ret.status = "ok"
             /\ Bytes4(ret.value) = ProductMod(Bytes4(request.lhs), Bytes4(request.rhs))

\* C26 witness: 3000000000 + 3000000000 has wrapped to 1705032704.
C26_Witness ==
    /\ LastCall = "ts_add"
    /\ request.lhs = [hi |-> 45776, lo |-> 24064]
    /\ request.rhs = [hi |-> 45776, lo |-> 24064]
    /\ ret.value = [hi |-> 26016, lo |-> 48128]

\* C30: Timestamp::now returns for every system time at or after the
\* epoch: the offset subtracted from the truncated millisecond count gives
\* (t - 2182158336) mod 2^32 and never fails.
C30_NowIsTotal ==
    LastCall = "ts_now"
        => /\ ret.status = "ok"
           /\ Bytes4(ret.value) = DifferenceMod(Bytes4(request.lhs), Bytes4(NOW_OFFSET))

====
